---------------------------- MODULE Spec2Model ----------------------------
(***************************************************************************)
(* Lumina-SMS: the Flask application of src/app.py as a state machine.     *)
(*                                                                         *)
(* State: the two tables (users, students), the browser session, and the   *)
(* request being served with the response it got.  One action per route;   *)
(* each action is the whole handler, its login_required wrapper and its    *)
(* commit included.  Requests are served one at a time.                    *)
(*                                                                         *)
(* Representation:                                                         *)
(*   - an optional value (a form field that may fail to parse, a nullable  *)
(*     column, Python's None) is <<>> for None and <<v>> for the value v;  *)
(*   - a float (GPA, fee) is a whole number of tenths: 4.0 is 40;          *)
(*   - a date is its proleptic Gregorian ordinal (date.toordinal()), so    *)
(*     date + timedelta(days=n) is integer addition;                       *)
(*   - a text field is a TLA+ string, except the e-mail address, which is  *)
(*     a tuple of characters so that its shape can be inspected;           *)
(*   - a password hash is the symbolic term <<salt, password>>: the hash   *)
(*     primitive is collision free and check_password_hash recomputes it.  *)
(* The CSRF token of FlaskForm is taken to be present and valid.           *)
(***************************************************************************)
EXTENDS Integers, Sequences, FiniteSets, TLC

VARIABLES
    users,      \* table user: sequence of [id, username, password_hash] rows
    students,   \* table student: sequence of rows, in the order they were inserted
    session,    \* the user id flask_login keeps in the browser session, or Anonymous
    req,        \* the request served last, with the inputs it carried
    resp        \* the response it got: status, page, flashed message, data rendered

vars == <<users, students, session, req, resp>>

-----------------------------------------------------------------------------
(* Bounds of the model *)

\* largest primary key the student table hands out (so it holds at most MaxId rows)
MaxId == 2

-----------------------------------------------------------------------------
(* Optional values and Python truthiness *)

None == <<>>

Some(v) == <<v>>

Val(o) == o[1]

\* bool(x) for a float-or-None: None and 0.0 are falsy
TruthyFloat(o) == o # None /\ Val(o) # 0

\* bool(x) for a date-or-None: every date is truthy
TruthyDate(o) == o # None

\* bool(s) and s.strip() for a string
TruthyText(s) == s # "" /\ s # " "

-----------------------------------------------------------------------------
(* datetime.date arithmetic *)

IsLeap(y) == y % 4 = 0 /\ (y % 100 # 0 \/ y % 400 = 0)

DaysInMonth(y, m) ==
    IF m = 2 THEN (IF IsLeap(y) THEN 29 ELSE 28)
    ELSE IF m \in {4, 6, 9, 11} THEN 30 ELSE 31

RECURSIVE DaysBeforeMonth(_, _)
DaysBeforeMonth(y, m) ==
    IF m = 1 THEN 0 ELSE DaysBeforeMonth(y, m - 1) + DaysInMonth(y, m - 1)

DaysBeforeYear(y) ==
    (y - 1) * 365 + (y - 1) \div 4 - (y - 1) \div 100 + (y - 1) \div 400

\* date(y, m, d).toordinal()
Ymd2Ord(y, m, d) == DaysBeforeYear(y) + DaysBeforeMonth(y, m) + d

\* timedelta(days=30)
DuePeriod == 30

-----------------------------------------------------------------------------
(* Models: User and Student *)

\* werkzeug's generate_password_hash with the salt it drew
generate_password_hash(salt, password) == <<salt, password>>

\* werkzeug's check_password_hash: rehash with the stored salt and compare
check_password_hash(hash, password) ==
    hash = generate_password_hash(hash[1], password)

\* User.check_password
check_password(user, password) ==
    check_password_hash(user.password_hash, password)

\* Student.next_due_date
next_due_date(s) ==
    IF ~TruthyDate(s.last_payment_date)
    THEN Val(s.start_date) + DuePeriod
    ELSE Val(s.last_payment_date) + DuePeriod

is_overdue_mut(s, today) == today >= next_due_date(s)

\* Student.is_overdue, today being datetime.now().date()
is_overdue(s, today) == today > next_due_date(s)

-----------------------------------------------------------------------------
(* Validators of wtforms *)

\* DataRequired on a StringField / PasswordField
DataRequiredText(s) == TruthyText(s)

\* DataRequired on a FloatField: it tests the truth of field.data
DataRequiredFloat(o) == TruthyFloat(o)

\* DataRequired on a DateField
DataRequiredDate(o) == TruthyDate(o)

UsernameMin == 2

UsernameMax == 20

\* Length(min=2, max=20)
LengthOk(s) == Len(s) >= UsernameMin /\ Len(s) <= UsernameMax

GpaMin == 0

GpaMax == 40

\* NumberRange(min=0.0, max=4.0)
NumberRangeOk(o) == o # None /\ Val(o) >= GpaMin /\ Val(o) <= GpaMax

\* Email(): one "@", a local part before it, a dotted domain after it
EmailOk(e) ==
    \E i \in 1..Len(e) :
        /\ e[i] = "@"
        /\ \A k \in 1..Len(e) : e[k] = "@" => k = i
        /\ i > 1
        /\ \E j \in (i + 2)..(Len(e) - 1) : e[j] = "."
        /\ \A k \in 1..Len(e) : e[k] # " "

\* RegistrationForm.validate()
RegistrationFormValid(f) ==
    /\ DataRequiredText(f.username) /\ LengthOk(f.username)
    /\ DataRequiredText(f.password)
    /\ DataRequiredText(f.confirm_password)
    /\ f.confirm_password = f.password

\* LoginForm.validate()
LoginFormValid(f) ==
    DataRequiredText(f.username) /\ DataRequiredText(f.password)

\* StudentForm.validate()
StudentFormValid(f) ==
    /\ DataRequiredText(f.name)
    /\ DataRequiredText(f.roll_no)
    /\ f.email # <<>> /\ EmailOk(f.email)
    /\ DataRequiredText(f.course)
    /\ DataRequiredFloat(f.gpa) /\ NumberRangeOk(f.gpa)
    /\ DataRequiredDate(f.start_date)
    /\ DataRequiredFloat(f.fee_amount)
    /\ DataRequiredDate(f.last_payment_date)

-----------------------------------------------------------------------------
(* What a client may send, and what the clock may read *)

Passwords == {"pw1", "pw2"}

\* the salts generate_password_hash may draw
Salts == {"s1"}

\* the well-formed registrations, and one with each kind of fault
RegistrationForms ==
    [username : {"alice", "bob"}, password : Passwords, confirm_password : Passwords]
    \cup [username : {"", "a", "abcdefghijklmnopqrstu"}, password : {"pw1"},
          confirm_password : {"pw1"}]
    \cup {[username |-> "alice", password |-> "", confirm_password |-> ""]}

LoginForms == [username : {"", "alice", "bob"}, password : Passwords \cup {""}]

\* a GET carries no form data: every field of the form is then empty
EmptyRegistrationForm == [username |-> "", password |-> "", confirm_password |-> ""]

EmptyLoginForm == [username |-> "", password |-> ""]

\* the requests a form route may get: a GET, or a POST of one of the forms
FormRequests(forms, empty) ==
    {[method |-> "GET", form |-> empty]} \cup {[method |-> "POST", form |-> f] : f \in forms}

GoodEmail == <<"a", "@", "x", ".", "o">>

EmailInputs == {<<>>, <<"a", "x", ".", "o">>, <<"a", "@", "x">>}

GpaInputs == {None, Some(-1), Some(0), Some(40), Some(41)}

BaseStudentForm ==
    [name |-> "Ann", roll_no |-> "r1", email |-> GoodEmail, course |-> "Math",
     gpa |-> Some(30), start_date |-> Some(Ymd2Ord(2024, 1, 1)),
     fee_amount |-> Some(500),
     last_payment_date |-> Some(Ymd2Ord(2024, 2, 15))]

\* the base form, and the base form with one field replaced
StudentForms ==
    {BaseStudentForm}
    \cup {[BaseStudentForm EXCEPT !.gpa = g] : g \in GpaInputs}
    \cup {[BaseStudentForm EXCEPT !.email = e] : e \in EmailInputs}
    \cup {[BaseStudentForm EXCEPT !.name = n] : n \in {"", " "}}
    \cup {[BaseStudentForm EXCEPT !.roll_no = ""], [BaseStudentForm EXCEPT !.course = ""]}
    \cup {[BaseStudentForm EXCEPT !.start_date = None]}
    \cup {[BaseStudentForm EXCEPT !.fee_amount = f] : f \in {None, Some(0)}}
    \cup {[BaseStudentForm EXCEPT !.last_payment_date = None]}

EmptyStudentForm ==
    [name |-> "", roll_no |-> "", email |-> <<>>, course |-> "", gpa |-> None,
     start_date |-> None, fee_amount |-> None, last_payment_date |-> None]

\* the ids a client may ask to delete: <int:id>
DeleteIds == 0..MaxId

\* what datetime.now().date() may return while a request is served
Todays ==
    {Ymd2Ord(2024, 1, 31), Ymd2Ord(2024, 2, 1), Ymd2Ord(2024, 3, 1),
     Ymd2Ord(2024, 3, 17), Ymd2Ord(2024, 3, 18)}

-----------------------------------------------------------------------------
(* Responses *)

NoSummary == <<>>

\* render_template(page, ...)
Render(page, flash, list, summary) ==
    [status |-> 200, page |-> page, flash |-> flash, students |-> list,
     summary |-> summary]

\* redirect(url_for(endpoint))
Redirect(endpoint, flash) ==
    [status |-> 302, page |-> endpoint, flash |-> flash, students |-> <<>>,
     summary |-> NoSummary]

\* abort(404) of get_or_404
NotFound ==
    [status |-> 404, page |-> "", flash |-> "", students |-> <<>>,
     summary |-> NoSummary]

\* LoginManager.unauthorized() with login_view = 'login'
Unauthorized == Redirect("login", "Please log in to access this page.")

-----------------------------------------------------------------------------
(* Session and queries *)

\* session value of a browser that is not logged in
Anonymous == 0

\* load_user: User.query.get(int(user_id))
load_user(user_id) == {users[i] : i \in {k \in 1..Len(users) : users[k].id = user_id}}

\* current_user.is_authenticated
is_authenticated == session # Anonymous /\ load_user(session) # {}

\* current_user.id
current_user_id == session

login_required_mut == TRUE

\* @login_required lets the request through
login_required == is_authenticated

already_authenticated_mut == FALSE

\* the test that opens register() and login()
already_authenticated == is_authenticated

\* User.query.filter_by(username=...).first()
UserByName(username) ==
    {users[i] : i \in {k \in 1..Len(users) : users[k].username = username}}

UsernameTaken_mut(username) == FALSE

UsernameTaken(username) == UserByName(username) # {}

\* primary key of the next row of user
NextUserId == Len(users) + 1

RECURSIVE MaxIdOf(_)
MaxIdOf(rows) ==
    IF rows = <<>> THEN 0
    ELSE LET m == MaxIdOf(Tail(rows)) IN IF Head(rows).id > m THEN Head(rows).id ELSE m

\* primary key of the next row of student: one above the largest in the table
NextStudentId == MaxIdOf(students) + 1

Owned(s, owner) == s.user_id = owner

ListStudents_mut(owner) == students

\* Student.query.filter_by(user_id=owner).all()
ListStudents(owner) == SelectSeq(students, LAMBDA s : Owned(s, owner))

CountStudents_mut(owner) == Len(students)

\* Student.query.filter_by(user_id=owner).count()
CountStudents(owner) == Cardinality({i \in 1..Len(students) : Owned(students[i], owner)})

RECURSIVE SumGpa(_)
SumGpa(rows) == IF rows = <<>> THEN 0 ELSE Val(Head(rows).gpa) + SumGpa(Tail(rows))

\* db.func.avg(Student.gpa) over the owner's rows, as the fraction <<sum, count>>
AvgGpa(owner) == <<SumGpa(ListStudents(owner)), Len(ListStudents(owner))>>

\* order_by(Student.gpa.desc()).first(): any row of the owner with the largest GPA
TopStudents(owner) ==
    LET rows == ListStudents(owner) IN
    {rows[i] : i \in {k \in 1..Len(rows) :
        \A j \in 1..Len(rows) : Val(rows[j].gpa) <= Val(rows[k].gpa)}}

OverdueStudents(owner, today) ==
    SelectSeq(ListStudents(owner), LAMBDA s : is_overdue(s, today))

\* Student.query.get_or_404(id)
StudentById(id) ==
    {students[i] : i \in {k \in 1..Len(students) : students[k].id = id}}

IsAuthor_mut(student) == TRUE

\* student.author == current_user
IsAuthor(student) == student.user_id = current_user_id

\* db.session.delete(student); db.session.commit()
DeleteRow(id) == SelectSeq(students, LAMBDA s : s.id # id)

-----------------------------------------------------------------------------
(* Initial state: db.create_all() on an empty database, a fresh browser *)

NoRequest == [op |-> "none"]

NoResponse == [status |-> 0, page |-> "", flash |-> "", students |-> <<>>,
               summary |-> NoSummary]

Init ==
    /\ users = <<>>
    /\ students = <<>>
    /\ session = Anonymous
    /\ req = NoRequest
    /\ resp = NoResponse

-----------------------------------------------------------------------------
(* Routes *)

\* /register
register ==
    \E r \in FormRequests(RegistrationForms, EmptyRegistrationForm), salt \in Salts :
      LET method == r.method
          form == r.form IN
        /\ req' = [op |-> "register", method |-> method, form |-> form]
        /\ IF already_authenticated
           THEN /\ resp' = Redirect("dashboard", "")
                /\ UNCHANGED <<users, students, session>>
           ELSE IF method = "POST" /\ RegistrationFormValid(form)
           THEN IF UsernameTaken(form.username)
                THEN /\ resp' = Redirect("register", "Username already taken!")
                     /\ UNCHANGED <<users, students, session>>
                ELSE /\ users' = Append(users,
                            [id |-> NextUserId, username |-> form.username,
                             password_hash |-> generate_password_hash(salt, form.password)])
                     /\ resp' = Redirect("login", "Account created! You can now login.")
                     /\ UNCHANGED <<students, session>>
           ELSE /\ resp' = Render("register.html", "", <<>>, NoSummary)
                /\ UNCHANGED <<users, students, session>>

LoginFailureFlash_mut(found) ==
    IF found = {} THEN "Unknown username." ELSE "Login Unsuccessful."

\* the message of a login that did not succeed; found is the query's result
LoginFailureFlash(found) == "Login Unsuccessful."

\* /login
login ==
    \E r \in FormRequests(LoginForms, EmptyLoginForm) :
      LET method == r.method
          form == r.form IN
        /\ req' = [op |-> "login", method |-> method, form |-> form]
        /\ IF already_authenticated
           THEN /\ resp' = Redirect("dashboard", "")
                /\ UNCHANGED <<users, students, session>>
           ELSE IF method = "POST" /\ LoginFormValid(form)
           THEN LET found == UserByName(form.username) IN
                IF \E user \in found : check_password(user, form.password)
                THEN /\ session' = (CHOOSE user \in found : TRUE).id
                     /\ resp' = Redirect("dashboard", "")
                     /\ UNCHANGED <<users, students>>
                ELSE /\ resp' = Render("login.html", LoginFailureFlash(found), <<>>, NoSummary)
                     /\ UNCHANGED <<users, students, session>>
           ELSE /\ resp' = Render("login.html", "", <<>>, NoSummary)
                /\ UNCHANGED <<users, students, session>>

\* /logout
logout ==
    /\ req' = [op |-> "logout"]
    /\ IF login_required
       THEN /\ session' = Anonymous
            /\ resp' = Redirect("home", "")
       ELSE /\ resp' = Unauthorized
            /\ UNCHANGED session
    /\ UNCHANGED <<users, students>>

\* /dashboard
dashboard ==
    \E today \in Todays :
        /\ req' = [op |-> "dashboard", today |-> today]
        /\ IF login_required
           THEN LET total == CountStudents(current_user_id) IN
                IF total > 0
                THEN \E top \in TopStudents(current_user_id) :
                        resp' = Render("dashboard.html", "", <<>>,
                            Some([total |-> total, avg |-> AvgGpa(current_user_id),
                                  top |-> Some(top),
                                  overdue |-> Len(OverdueStudents(current_user_id, today))]))
                ELSE resp' = Render("dashboard.html", "", <<>>,
                            Some([total |-> total, avg |-> <<0, 1>>, top |-> None,
                                  overdue |-> 0]))
           ELSE resp' = Unauthorized
        /\ UNCHANGED <<users, students, session>>

\* /students
student_list ==
    /\ req' = [op |-> "students"]
    /\ IF login_required
       THEN resp' = Render("students.html", "", ListStudents(current_user_id), NoSummary)
       ELSE resp' = Unauthorized
    /\ UNCHANGED <<users, students, session>>

\* /reminders
reminders ==
    \E today \in Todays :
        /\ req' = [op |-> "reminders", today |-> today]
        /\ IF login_required
           THEN resp' = Render("reminders.html", "",
                               OverdueStudents(current_user_id, today), NoSummary)
           ELSE resp' = Unauthorized
        /\ UNCHANGED <<users, students, session>>

\* /create
create_student ==
    \E r \in FormRequests(StudentForms, EmptyStudentForm) :
      LET method == r.method
          form == r.form IN
        /\ req' = [op |-> "create", method |-> method, form |-> form]
        /\ IF login_required
           THEN IF method = "POST" /\ StudentFormValid(form)
                THEN /\ NextStudentId <= MaxId
                     /\ students' = Append(students,
                            [id |-> NextStudentId, name |-> form.name,
                             roll_no |-> form.roll_no, email |-> form.email,
                             course |-> form.course, gpa |-> form.gpa,
                             start_date |-> form.start_date,
                             fee_amount |-> form.fee_amount,
                             last_payment_date |-> form.last_payment_date,
                             user_id |-> current_user_id])
                     /\ resp' = Redirect("student_list", "Student added successfully!")
                ELSE /\ resp' = Render("create.html", "", <<>>, NoSummary)
                     /\ UNCHANGED students
           ELSE /\ resp' = Unauthorized
                /\ UNCHANGED students
        /\ UNCHANGED <<users, session>>

\* /delete/<int:id>
delete_student ==
    \E id \in DeleteIds :
        /\ req' = [op |-> "delete", id |-> id]
        /\ IF login_required
           THEN LET found == StudentById(id) IN
                IF found = {}
                THEN /\ resp' = NotFound
                     /\ UNCHANGED students
                ELSE IF \E student \in found : ~IsAuthor(student)
                THEN /\ resp' = Redirect("student_list",
                                    "You are not authorized to delete this record.")
                     /\ UNCHANGED students
                ELSE /\ students' = DeleteRow(id)
                     /\ resp' = Redirect("student_list", "Student deleted.")
           ELSE /\ resp' = Unauthorized
                /\ UNCHANGED students
        /\ UNCHANGED <<users, session>>

Next ==
    \/ register
    \/ login
    \/ logout
    \/ dashboard
    \/ student_list
    \/ reminders
    \/ create_student
    \/ delete_student

Spec == Init /\ [][Next]_vars

-----------------------------------------------------------------------------
(* The fee-due computation on its own: the student table holds rows with   *)
(* every combination of start date and nullable last payment date, their   *)
(* owner is logged in, and the two routes that evaluate is_overdue run.    *)

DueStartDates == {Ymd2Ord(2024, 1, 1), Ymd2Ord(2024, 1, 2)}

DuePaymentDates == {None, Some(Ymd2Ord(2024, 2, 15)), Some(Ymd2Ord(2024, 2, 16))}

DueUser == [id |-> 1, username |-> "alice",
            password_hash |-> generate_password_hash("s1", "pw1")]

DueRow(id, start, paid) ==
    [id |-> id, name |-> "Ann", roll_no |-> "r1", email |-> GoodEmail,
     course |-> "Math", gpa |-> Some(30), start_date |-> Some(start),
     fee_amount |-> Some(500), last_payment_date |-> paid, user_id |-> DueUser.id]

DueStores ==
    {<<DueRow(1, s, p)>> : s \in DueStartDates, p \in DuePaymentDates}
    \cup {<<DueRow(1, s, p), DueRow(2, Ymd2Ord(2024, 1, 1), q)>> :
            s \in DueStartDates, p \in DuePaymentDates, q \in DuePaymentDates}

InitDue ==
    /\ users = <<DueUser>>
    /\ students \in DueStores
    /\ session = DueUser.id
    /\ req = NoRequest
    /\ resp = NoResponse

NextDue == reminders \/ dashboard

SpecDue == InitDue /\ [][NextDue]_vars

-----------------------------------------------------------------------------
(* Properties *)

\* the rows of a sequence, as a set
Rows(seq) == {seq[i] : i \in 1..Len(seq)}

ListServed == req.op = "students" /\ resp.status = 200

\* C1: tenant isolation.  A served student list holds exactly the stored
\* rows whose user_id is the session's user: every row of that user and no
\* row of another one; a row that enters the table belongs to the user who
\* created it, and a stored row never changes while it stays in the table.
TenantIsolation ==
    [][ /\ ListServed' =>
            /\ Rows(resp'.students) = {s \in Rows(students') : s.user_id = session'}
            /\ Len(resp'.students) = Cardinality(Rows(resp'.students))
        /\ \A s \in Rows(students') :
            \/ s \in Rows(students)
            \/ /\ req'.op = "create"
               /\ s.user_id = session
               /\ session # Anonymous
               /\ \A old \in Rows(students) : old.id # s.id
      ]_vars

\* alice's list is served while the table also holds a row of bob
TenantIsolationWitness ==
    /\ ListServed
    /\ \E s \in Rows(students) : s.user_id = session
    /\ \E s \in Rows(students) : s.user_id # session
    /\ Len(resp.students) = 1

\* the row a delete request names, when it belongs to somebody else
ForeignRow(id) == {s \in Rows(students) : s.id = id /\ s.user_id # session}

\* C2: a delete request of a logged-in user for an existing row of another
\* user is answered with the not-authorized message and changes no table.
DeleteForeignRefused ==
    [][ (req'.op = "delete" /\ session # Anonymous /\ ForeignRow(req'.id) # {}) =>
            /\ resp'.flash = "You are not authorized to delete this record."
            /\ resp'.status = 302 /\ resp'.page = "student_list"
            /\ students' = students
            /\ users' = users
      ]_vars

DeleteForeignRefusedWitness ==
    /\ req.op = "delete"
    /\ session # Anonymous
    /\ ForeignRow(req.id) # {}
    /\ resp.flash = "You are not authorized to delete this record."

\* anchor(s): the last payment date when present, else the start date
Anchor(s) ==
    IF s.last_payment_date = None THEN Val(s.start_date) ELSE Val(s.last_payment_date)

CreatePosted == req.op = "create" /\ req.method = "POST" /\ session # Anonymous

CreateSucceeded == resp.flash = "Student added successfully!"

\* C4: with every other field valid, a posted student is persisted exactly
\* when its GPA lies in the closed range [0.0, 4.0].
GpaClosedRangeAccepted ==
    (CreatePosted /\ StudentFormValid([req.form EXCEPT !.gpa = Some(30)])) =>
        ( (CreateSucceeded /\ \E s \in Rows(students) :
                                 s.gpa = req.form.gpa /\ s.user_id = session)
          <=> (req.form.gpa # None /\ Val(req.form.gpa) >= 0 /\ Val(req.form.gpa) <= 40) )

\* C5: a posted student without a last payment date, every other field
\* valid, is persisted with no last payment date and is due 30 days after
\* its start date.
LastPaymentOptional ==
    (/\ CreatePosted
     /\ req.form.last_payment_date = None
     /\ StudentFormValid([req.form EXCEPT !.last_payment_date = req.form.start_date])) =>
        /\ CreateSucceeded
        /\ \E s \in Rows(students) :
              /\ s.user_id = session
              /\ s.last_payment_date = None
              /\ next_due_date(s) = Val(s.start_date) + 30

UniqueUsernames ==
    \A i, j \in 1..Len(users) : users[i].username = users[j].username => i = j

\* C6: a valid registration under a username that is already stored is
\* answered with the username-taken message and leaves the users as they
\* were; no two stored users ever share a username.
DuplicateUsernameRefused ==
    [][ /\ (/\ req'.op = "register" /\ req'.method = "POST"
            /\ session = Anonymous
            /\ RegistrationFormValid(req'.form)
            /\ \E u \in Rows(users) : u.username = req'.form.username) =>
                /\ resp'.flash = "Username already taken!"
                /\ users' = users
        /\ UniqueUsernames'
      ]_vars

\* "alice"/"pw1" is stored and "alice"/"pw2" was refused
DuplicateUsernameRefusedWitness ==
    /\ req.op = "register"
    /\ resp.flash = "Username already taken!"
    /\ \E u \in Rows(users) :
          /\ u.username = req.form.username
          /\ ~check_password(u, req.form.password)

\* a posted login with a username and a password that did not log in
LoginFailed ==
    /\ req.op = "login" /\ req.method = "POST"
    /\ req.form.username # "" /\ req.form.password # ""
    /\ resp.status = 200

\* C7: every failed login gives the one same observation (the login page,
\* the one message, nothing else, no session), whether or not a user of
\* that name is stored.
LoginFailureUniform ==
    LoginFailed =>
        /\ resp = [status |-> 200, page |-> "login.html",
                   flash |-> "Login Unsuccessful.", students |-> <<>>,
                   summary |-> <<>>]
        /\ session = Anonymous

\* a failed login for a name that no stored user has, another user being stored
LoginFailureUniformWitness ==
    /\ LoginFailed
    /\ users # <<>>
    /\ \A u \in Rows(users) : u.username # req.form.username

DashboardServed == req.op = "dashboard" /\ resp.status = 200

\* C8: the dashboard's total is the length of the student list of the same
\* user in the same state, and its top student is none exactly when the
\* total is 0.
DashboardTotalIsListLength ==
    DashboardServed =>
        /\ Val(resp.summary).total = Len(ListStudents(session))
        /\ (Val(resp.summary).top = None) <=> (Val(resp.summary).total = 0)

DashboardTotalIsListLengthWitness ==
    /\ DashboardServed
    /\ Val(resp.summary).total = 1
    /\ Len(students) = 2

ProtectedOps == {"dashboard", "students", "reminders", "create", "delete", "logout"}

\* C9: a request to a protected route from a browser that is not logged in
\* is redirected to the login page, carries no student data, changes no
\* table and leaves the browser logged out.
UnauthenticatedRejected ==
    [][ (session = Anonymous /\ req'.op \in ProtectedOps) =>
            /\ resp'.status = 302 /\ resp'.page = "login"
            /\ resp'.students = <<>> /\ resp'.summary = <<>>
            /\ users' = users
            /\ students' = students
            /\ session' = Anonymous
      ]_vars

\* a valid student is posted by nobody while the table holds a row
UnauthenticatedRejectedWitness ==
    /\ session = Anonymous
    /\ req.op = "create" /\ req.method = "POST" /\ StudentFormValid(req.form)
    /\ resp.page = "login"
    /\ students # <<>>

\* C10: while a user is logged in, /register and /login change neither the
\* users nor the session, and the session's user changes only by /logout.
AuthenticatedAuthNoOp ==
    [][ /\ (session # Anonymous /\ req'.op \in {"register", "login"}) =>
            /\ users' = users
            /\ session' = session
            /\ resp' = Redirect("dashboard", "")
        /\ (session # Anonymous /\ session' # session) =>
            (req'.op = "logout" /\ session' = Anonymous)
      ]_vars

\* logged in as one user, the valid credentials of another one are posted
AuthenticatedAuthNoOpWitness ==
    /\ session # Anonymous
    /\ req.op = "login" /\ req.method = "POST"
    /\ resp = Redirect("dashboard", "")
    /\ \E u \in Rows(users) :
          /\ u.id # session
          /\ u.username = req.form.username
          /\ check_password(u, req.form.password)

=============================================================================
